---- MODULE Spec2Model ----
(***************************************************************************)
(* Remote image references: parsing, validation and normalization          *)
(* (package reference, remote.go).                                         *)
(*                                                                         *)
(* A Go string is modelled as a sequence of one-character strings, so      *)
(* that splitting, prefixing, trimming and lower-casing are computed       *)
(* character by character as the code computes them.                       *)
(***************************************************************************)
EXTENDS Integers, Sequences, FiniteSets

(***************************************************************************)
(* Characters                                                              *)
(***************************************************************************)
Lower == {"a","b","c","d","e","f","g","h","i","j","k","l","m","n","o","p","q","r","s","t","u","v","w","x","y","z"}
Upper == {"A","B","C","D","E","F","G","H","I","J","K","L","M","N","O","P","Q","R","S","T","U","V","W","X","Y","Z"}
Digit == {"0","1","2","3","4","5","6","7","8","9"}
UpperSeq == <<"A","B","C","D","E","F","G","H","I","J","K","L","M","N","O","P","Q","R","S","T","U","V","W","X","Y","Z">>
LowerSeq == <<"a","b","c","d","e","f","g","h","i","j","k","l","m","n","o","p","q","r","s","t","u","v","w","x","y","z">>
Alnum == Lower \cup Digit
HexChars == Digit \cup {"a","b","c","d","e","f"}
WordChars == Lower \cup Upper \cup Digit \cup {"_"}

(***************************************************************************)
(* The package's constants (remote.go, lines 11-20)                        *)
(***************************************************************************)
DefaultTag == <<"l","a","t","e","s","t">>
DefaultHostname == <<"d","o","c","k","e","r",".","i","o">>
LegacyDefaultHostname == <<"i","n","d","e","x",".","d","o","c","k","e","r",".","i","o">>
DefaultRepoPrefix == <<"l","i","b","r","a","r","y","/">>
localhost == <<"l","o","c","a","l","h","o","s","t">>
sha256Prefix == <<"s","h","a","2","5","6",":">>
\* Length of a hexadecimal identifier ("64-byte hexadecimal strings").
HexLength == 64
\* Longest namespace (the part of a name before its first "/").
NamespaceMaxLength == 255

(***************************************************************************)
(* package strings                                                         *)
(***************************************************************************)
\* strings.IndexRune, 1-based; 0 where Go returns -1.
IndexRune(s, c) ==
  IF \E i \in 1..Len(s) : s[i] = c
  THEN CHOOSE i \in 1..Len(s) : s[i] = c /\ \A j \in 1..(i - 1) : s[j] # c
  ELSE 0

LastIndexRune(s, c) ==
  IF \E i \in 1..Len(s) : s[i] = c
  THEN CHOOSE i \in 1..Len(s) : s[i] = c /\ \A j \in (i + 1)..Len(s) : s[j] # c
  ELSE 0

ContainsRune(s, c) == \E i \in 1..Len(s) : s[i] = c

ContainsAny(s, chars) == \E i \in 1..Len(s) : s[i] \in chars

HasPrefix(s, p) == Len(s) >= Len(p) /\ SubSeq(s, 1, Len(p)) = p

TrimPrefix(s, p) == IF HasPrefix(s, p) THEN SubSeq(s, Len(p) + 1, Len(s)) ELSE s

LowerOf(c) ==
  IF c \in Upper
  THEN LowerSeq[CHOOSE k \in 1..Len(UpperSeq) : UpperSeq[k] = c]
  ELSE c

ToLower(s) == IF s = <<>> THEN <<>> ELSE [i \in 1..Len(s) |-> LowerOf(s[i])]

Slash == <<"/">>

(***************************************************************************)
(* splitHostname and normalize                                             *)
(***************************************************************************)
\* Line 171: no "/" at all, or a first segment that is no hostname.
NoHostname(name, i) ==
  \/ i = 0
  \/ /\ ~ContainsAny(SubSeq(name, 1, i - 1), {".", ":"})
     /\ SubSeq(name, 1, i - 1) # localhost

\* Lines 171-175, with i the index of the first "/".
SplitAt(name, i) ==
  IF NoHostname(name, i)
  THEN [hostname |-> DefaultHostname, remoteName |-> name]
  ELSE [hostname |-> SubSeq(name, 1, i - 1),
        remoteName |-> SubSeq(name, i + 1, Len(name))]

\* Lines 176-178.
FoldLegacyHostname(sp) ==
  IF sp.hostname = LegacyDefaultHostname
  THEN [sp EXCEPT !.hostname = DefaultHostname]
  ELSE sp

\* Lines 179-181.
AddDefaultRepoPrefix(sp) ==
  IF sp.hostname = DefaultHostname /\ ~ContainsRune(sp.remoteName, "/")
  THEN [sp EXCEPT !.remoteName = DefaultRepoPrefix \o @]
  ELSE sp

splitHostname(name) ==
  AddDefaultRepoPrefix(FoldLegacyHostname(SplitAt(name, IndexRune(name, "/"))))

\* A string result with an error flag: (string, error).
StrOk(s) == [err |-> FALSE, val |-> s]
StrErr == [err |-> TRUE, val |-> <<>>]

\* normalize, were it to lower-case the name instead of rejecting it.
NormalizeSplitCoercing(name, sp) ==
  IF sp.hostname = DefaultHostname
  THEN StrOk(TrimPrefix(ToLower(sp.remoteName), DefaultRepoPrefix))
  ELSE StrOk(ToLower(name))

\* normalize, were it to strip the default prefix whatever the hostname.
NormalizeSplitAnyHost(name, sp) ==
  IF ToLower(sp.remoteName) # sp.remoteName
  THEN StrErr
  ELSE StrOk(TrimPrefix(sp.remoteName, DefaultRepoPrefix))

\* Lines 189-198, with sp the result of splitHostname(name).
NormalizeSplit(name, sp) ==
  IF ToLower(sp.remoteName) # sp.remoteName
  THEN StrErr
  ELSE IF sp.hostname = DefaultHostname
       THEN IF HasPrefix(sp.remoteName, DefaultRepoPrefix)
            THEN StrOk(TrimPrefix(sp.remoteName, DefaultRepoPrefix))
            ELSE StrOk(sp.remoteName)
       ELSE StrOk(name)

normalize(name) == NormalizeSplit(name, splitHostname(name))

(***************************************************************************)
(* package digest (collaborator)                                           *)
(***************************************************************************)
\* digest.ValidateHex: nil exactly for 64 lowercase hexadecimal characters.
ValidateHex(s) == Len(s) = HexLength /\ \A i \in 1..Len(s) : s[i] \in HexChars

\* digest.ParseDigest: a valid digest is "sha256:" followed by valid hex.
ParseDigest(s) ==
  IF HasPrefix(s, sha256Prefix) /\ ValidateHex(TrimPrefix(s, sha256Prefix))
  THEN StrOk(s)
  ELSE StrErr

\* validateName, were it to accept every name.
validateNameAcceptingAll(name) == FALSE

\* validateName returns an error (TRUE) for a bare hexadecimal identifier.
validateName(name) == ValidateHex(name)

(***************************************************************************)
(* The name, tag and reference grammar (reference.go, collaborator)        *)
(***************************************************************************)
RECURSIVE SplitSlash(_)
SplitSlashAt(s, i) ==
  IF i = 0 THEN <<s>>
  ELSE <<SubSeq(s, 1, i - 1)>> \o SplitSlash(SubSeq(s, i + 1, Len(s)))

SplitSlash(s) == SplitSlashAt(s, IndexRune(s, "/"))

\* [a-z0-9]+(?:(?:[._]|__|[-]*)[a-z0-9]+)*
IsNameComponent(c) ==
  /\ Len(c) > 0
  /\ c[1] \in Alnum
  /\ c[Len(c)] \in Alnum
  /\ \A i \in 1..Len(c) :
       \/ c[i] \in Alnum
       \/ c[i] = "." /\ c[i - 1] \in Alnum /\ c[i + 1] \in Alnum
       \/ /\ c[i] = "_"
          /\ c[i - 1] \in Alnum \cup {"_"}
          /\ c[i + 1] \in Alnum \cup {"_"}
          /\ ~(c[i - 1] = "_" /\ c[i + 1] = "_")
       \/ c[i] = "-" /\ c[i - 1] \in Alnum \cup {"-"} /\ c[i + 1] \in Alnum \cup {"-"}

\* Lower-case labels joined by ".", each starting and ending alphanumeric.
IsDomain(d) ==
  /\ Len(d) > 0
  /\ d[1] \in Alnum
  /\ d[Len(d)] \in Alnum
  /\ \A i \in 1..Len(d) :
       \/ d[i] \in Alnum
       \/ d[i] = "." /\ d[i - 1] \in Alnum /\ d[i + 1] \in Alnum
       \/ d[i] = "-" /\ d[i - 1] \in Alnum \cup {"-"} /\ d[i + 1] \in Alnum \cup {"-"}

\* A domain with an optional ":port".
IsHostnameAt(h, i) ==
  /\ IsDomain(IF i = 0 THEN h ELSE SubSeq(h, 1, i - 1))
  /\ i = 0 \/ i < Len(h)
  /\ i = 0 \/ \A j \in (i + 1)..Len(h) : h[j] \in Digit

IsHostname(h) == IsHostnameAt(h, IndexRune(h, ":"))

NamespaceTooLong(name) == IndexRune(name, "/") - 1 > NamespaceMaxLength

\* The anchored name grammar: an optional hostname, then path components.
MatchesSegments(segs) ==
  /\ \A k \in 1..Len(segs) :
       \/ IsNameComponent(segs[k])
       \/ k = 1 /\ Len(segs) >= 2 /\ IsHostname(segs[k])

MatchesName(name) == ~NamespaceTooLong(name) /\ MatchesSegments(SplitSlash(name))

\* [A-Za-z0-9_][A-Za-z0-9._-]*, at most 128 characters.
MatchesTag(tag) ==
  /\ Len(tag) > 0
  /\ Len(tag) <= 128
  /\ tag[1] \in WordChars
  /\ \A i \in 1..Len(tag) : tag[i] \in WordChars \cup {".", "-"}

(***************************************************************************)
(* Reference values.  A reference is a record of its dynamic type and of   *)
(* the fields of the Named it holds; the remote types wrap a Named, whose  *)
(* fields are kept as they are.                                            *)
(***************************************************************************)
NilRef == [type |-> "nil", name |-> <<>>, tag |-> <<>>, digest |-> <<>>]

MkRef(type, name, tag, digest) ==
  [type |-> type, name |-> name, tag |-> tag, digest |-> digest]

\* (reference, error) results.
RefOk(r) == [err |-> FALSE, ref |-> r]
RefErr == [err |-> TRUE, ref |-> NilRef]

\* remoteNamedRef{r}, remoteTaggedRef{remoteNamedRef{r}}, remoteCanonicalRef{...}
Wrap(type, r) == [r EXCEPT !.type = type]

Name(r) == r.name
Tag(r) == r.tag
Digest(r) == r.digest

\* Named.String(): name, name:tag or name@digest.
String(r) ==
  IF r.digest # <<>> THEN r.name \o <<"@">> \o r.digest
  ELSE IF r.tag # <<>> THEN r.name \o <<":">> \o r.tag
  ELSE r.name

\* The type assertions of the code: which interfaces a dynamic type has.
IsCanonical(r) == r.type \in {"canonicalReference", "reference", "remoteCanonicalRef"}
IsNamedTagged(r) == r.type \in {"taggedReference", "reference", "remoteTaggedRef"}
IsRemoteTagged(r) == r.type = "remoteTaggedRef"
IsRemoteCanonical(r) == r.type = "remoteCanonicalRef"

(***************************************************************************)
(* reference.go (collaborator): WithName, WithTag, WithDigest, ParseNamed  *)
(***************************************************************************)
WithName(name) ==
  IF MatchesName(name) THEN RefOk(MkRef("repository", name, <<>>, <<>>)) ELSE RefErr

WithTag(named, tag) ==
  IF MatchesTag(tag)
  THEN RefOk(MkRef("taggedReference", Name(named), tag, <<>>))
  ELSE RefErr

WithDigest(named, dgst) ==
  IF ~ParseDigest(dgst).err
  THEN RefOk(MkRef("canonicalReference", Name(named), <<>>, dgst))
  ELSE RefErr

\* name [":" tag] ["@" digest]: the digest follows the first "@"; the tag
\* follows the last ":" of the rest when no "/" comes after that ":".
\* The match of the reference grammar: what stands for the name, the tag
\* and the digest, whether they match or not.
SplitDigest(s, at) ==
  IF at > 0
  THEN [head |-> SubSeq(s, 1, at - 1), hasDigest |-> TRUE,
        digest |-> SubSeq(s, at + 1, Len(s))]
  ELSE [head |-> s, hasDigest |-> FALSE, digest |-> <<>>]

SplitTag(m, colon) ==
  IF colon > 0 /\ ~ContainsRune(SubSeq(m.head, colon + 1, Len(m.head)), "/")
  THEN [name |-> SubSeq(m.head, 1, colon - 1), hasTag |-> TRUE,
        tag |-> SubSeq(m.head, colon + 1, Len(m.head)),
        hasDigest |-> m.hasDigest, digest |-> m.digest]
  ELSE [name |-> m.head, hasTag |-> FALSE, tag |-> <<>>,
        hasDigest |-> m.hasDigest, digest |-> m.digest]

SplitTagOf(m) == SplitTag(m, LastIndexRune(m.head, ":"))

SplitReference(s) == SplitTagOf(SplitDigest(s, IndexRune(s, "@")))

\* The most specific reference type for the parts matched.
BestReferenceType(m) ==
  MkRef(IF m.hasDigest /\ m.hasTag THEN "reference"
        ELSE IF m.hasDigest THEN "canonicalReference"
        ELSE IF m.hasTag THEN "taggedReference"
        ELSE "repository",
        m.name, m.tag, m.digest)

ParseMatch(m) ==
  IF \/ ~MatchesName(m.name)
     \/ m.hasTag /\ ~MatchesTag(m.tag)
     \/ m.hasDigest /\ ParseDigest(m.digest).err
  THEN RefErr
  ELSE RefOk(BestReferenceType(m))

ParseNamed(s) == ParseMatch(SplitReference(s))

(***************************************************************************)
(* remote.go: constructors, accessors and entry points                     *)
(***************************************************************************)
\* "if err != nil { return nil, err }; return &T{r}, nil"
WrapResult(type, r) == IF r.err THEN RefErr ELSE RefOk(Wrap(type, r.ref))

\* Lines 72-82, with n the result of normalize(name).
WithNormalizedName(n) ==
  IF n.err THEN RefErr
  ELSE IF validateName(n.val) THEN RefErr
  ELSE WrapResult("remoteNamedRef", WithName(n.val))

WithRemoteName(name) == WithNormalizedName(normalize(name))

WithRemoteTag(name, tag) == WrapResult("remoteTaggedRef", WithTag(name, tag))

WithRemoteDigest(name, dgst) == WrapResult("remoteCanonicalRef", WithDigest(name, dgst))

\* ParseRemoteNamed, were it to look for a tag before a digest.
ComposeRemoteTagFirst(named, r) ==
  IF r.err THEN RefErr
  ELSE IF IsNamedTagged(named) THEN WithRemoteTag(r.ref, Tag(named))
  ELSE IF IsCanonical(named) THEN WithRemoteDigest(r.ref, Digest(named))
  ELSE r

\* Lines 56-65, with named the reference parsed and r the result of
\* WithRemoteName(named.Name()).
ComposeRemote(named, r) ==
  IF r.err THEN RefErr
  ELSE IF IsCanonical(named) THEN WithRemoteDigest(r.ref, Digest(named))
  ELSE IF IsNamedTagged(named) THEN WithRemoteTag(r.ref, Tag(named))
  ELSE r

\* Lines 52-65, with named the result of ParseNamed(s).
RemoteOfNamed(named) ==
  IF named.err THEN RefErr
  ELSE ComposeRemote(named.ref, WithRemoteName(Name(named.ref)))

ParseRemoteNamed(s) == RemoteOfNamed(ParseNamed(s))

JoinFullName(sp) == sp.hostname \o Slash \o sp.remoteName

FullName(r) == JoinFullName(splitHostname(Name(r)))

Hostname(r) == splitHostname(Name(r)).hostname

RemoteName(r) == splitHostname(Name(r)).remoteName

\* IsRemoteNameOnly, were it to look for a tag only.
IsRemoteNameOnlyTagOnly(r) == ~IsRemoteTagged(r)

IsRemoteNameOnly(r) ==
  IF IsRemoteTagged(r) THEN FALSE
  ELSE IF IsRemoteCanonical(r) THEN FALSE
  ELSE TRUE

WithDefaultRemoteTag(r) ==
  IF IsRemoteNameOnly(r) THEN WithRemoteTag(r, DefaultTag).ref ELSE r

\* (digest, reference, error)
\* Lines 156-158.
PrefixID(idOrRef) ==
  IF ValidateHex(idOrRef) THEN sha256Prefix \o idOrRef ELSE idOrRef

\* Lines 162-163: return "", ref, err.
ReferenceResult(r) == [dgst |-> <<>>, ref |-> r.ref, err |-> r.err]

\* ParseIDOrReference, were it not to return once the digest is parsed.
DigestOrReferenceNoReturn(s, d) == ReferenceResult(ParseRemoteNamed(s))

\* Lines 159-163, with d the result of digest.ParseDigest(s).
DigestOrReference(s, d) ==
  IF ~d.err THEN [dgst |-> d.val, ref |-> NilRef, err |-> FALSE]
  ELSE ReferenceResult(ParseRemoteNamed(s))

ParsePrefixed(s) == DigestOrReference(s, ParseDigest(s))

ParseIDOrReference(idOrRef) == ParsePrefixed(PrefixID(idOrRef))

(***************************************************************************)
(* The strings the callers pass.  A name is an optional first segment (a   *)
(* hostname or a namespace), at most MaxMiddle middle segments and a last  *)
(* segment; a reference string is a name with an optional ":tag" and       *)
(* "@digest".  The segments are those of the package's tests, with the     *)
(* boundary cases of the grammar.                                          *)
(***************************************************************************)
MaxMiddle == 1

HexName == <<"1","a","3","f","5","e","7","d","9","c","1","b","3","a","5","f","7","e","9","d","1","c","3","b","5","a","7","f","9","e","1","d","3","c","5","b","7","a","9","f","1","e","3","d","5","d","7","c","9","b","1","a","3","f","5","e","7","d","9","c","1","b","3","a">>
SongName == <<"t","h","i","s","i","s","t","h","e","s","o","n","g","t","h","a","t","n","e","v","e","r","e","n","d","s","i","t","g","o","e","s","o","n","a","n","d","o","n","a","n","d","o","n","t","h","i","s","i","s","t","h","e","s","o","n","g","t","h","a","t","n","e","v">>
DigestHex == <<"8","6","e","0","e","0","9","1","d","0","d","a","6","b","d","e","2","4","5","6","d","b","b","4","8","3","0","6","f","3","9","5","6","b","b","e","b","2","e","a","e","1","b","5","b","9","a","4","3","0","4","5","8","4","3","f","6","9","f","e","4","a","a","a">>
SomeDigest == sha256Prefix \o DigestHex
ubuntu == <<"u","b","u","n","t","u">>
library == <<"l","i","b","r","a","r","y">>
fooo == <<"f","o","o","o">>
Docker == <<"D","o","c","k","e","r">>
hyphenDocker == <<"-","d","o","c","k","e","r">>
twoPeriods == <<"d","o","c","k",".",".","e","r">>
separators == <<"d","o","c","k","_","_","e","r","-","1","2",".","0","4">>
exampleCom == <<"e","x","a","m","p","l","e",".","c","o","m",":","8","0","0","0">>
loopback == <<"1","2","7",".","0",".","0",".","1",":","5","0","0","0">>
upperHost == <<"D","o","c","k","e","r",".","i","o">>
hyphenFoo == <<"-","f","o","o">>
upperTag == <<"V","1",".","0">>
foo == <<"f","o","o">>
LongNamespace == [i \in 1..(NamespaceMaxLength + 1) |-> "n"]

FirstSegments ==
  {DefaultHostname, LegacyDefaultHostname, localhost, exampleCom, loopback,
   upperHost, library, fooo, Docker, hyphenDocker, LongNamespace}

MiddleSegments == {library, localhost, fooo, <<>>}

LastSegments ==
  {ubuntu, library, Docker, hyphenDocker, twoPeriods, separators, HexName,
   SongName, <<>>}

\* The paths "m1/.../mk/" of at most n middle segments.
RECURSIVE Middles(_)
Middles(n) ==
  IF n = 0 THEN {<<>>}
  ELSE Middles(n - 1) \cup
       {m \o Slash \o p : m \in MiddleSegments, p \in Middles(n - 1)}

InputNames ==
  {f \o m \o l : f \in {<<>>} \cup {x \o Slash : x \in FirstSegments},
                 m \in Middles(MaxMiddle), l \in LastSegments}

Suffixes ==
  {<<>>, <<":">> \o DefaultTag, <<":">> \o upperTag, <<"@">> \o SomeDigest,
   <<":">> \o DefaultTag \o <<"@">> \o SomeDigest}

\* Reference strings, and a digest on its own (for ParseIDOrReference).
Inputs == {n \o x : n \in InputNames, x \in Suffixes} \cup {SomeDigest}

\* The tags and digests passed to WithRemoteTag and WithRemoteDigest.
Tags == {DefaultTag, hyphenFoo}
Digests == {SomeDigest, foo}

\* The spellings of a name on the default host: as given, minimal, fully
\* qualified, and with the legacy hostname.
Minimal(s) == TrimPrefix(s, DefaultRepoPrefix)
FullyQualified(s) == DefaultHostname \o Slash \o s
LegacyAlias(s) == LegacyDefaultHostname \o Slash \o s
Spellings(s) == {s, Minimal(s), FullyQualified(s), LegacyAlias(s)}

(***************************************************************************)
(* The state: the last call, its arguments and what it returned.           *)
(***************************************************************************)
VARIABLES
  op,      \* the function last called ("start": none yet)
  base,    \* the name the caller spelled
  arg,     \* the string passed to the call
  argRef,  \* the reference passed to the call
  ref,     \* the reference returned
  err,     \* whether an error was returned
  dgst,    \* the digest returned
  out      \* the string returned

vars == <<op, base, arg, argRef, ref, err, dgst, out>>

Init ==
  /\ op = "start"
  /\ base = <<>>
  /\ arg = <<>>
  /\ argRef = NilRef
  /\ ref = NilRef
  /\ err = FALSE
  /\ dgst = <<>>
  /\ out = <<>>

CallNormalize ==
  /\ op = "start"
  /\ \E b \in Inputs :
       /\ base' = b
       /\ arg' = b
       /\ \E n \in {normalize(b)} : out' = n.val /\ err' = n.err
  /\ op' = "normalize"
  /\ UNCHANGED <<argRef, ref, dgst>>

CallWithRemoteName ==
  /\ op = "start"
  /\ \E b \in Inputs : \E s \in Spellings(b) :
       /\ base' = b
       /\ arg' = s
       /\ \E r \in {WithRemoteName(s)} : ref' = r.ref /\ err' = r.err
  /\ op' = "WithRemoteName"
  /\ UNCHANGED <<argRef, dgst, out>>

CallParseRemoteNamed ==
  /\ op = "start"
  /\ \E b \in Inputs : \E s \in Spellings(b) :
       /\ base' = b
       /\ arg' = s
       /\ \E r \in {ParseRemoteNamed(s)} : ref' = r.ref /\ err' = r.err
  /\ op' = "ParseRemoteNamed"
  /\ UNCHANGED <<argRef, dgst, out>>

CallParseIDOrReference ==
  /\ op = "start"
  /\ \E b \in Inputs :
       /\ base' = b
       /\ arg' = b
       /\ \E r \in {ParseIDOrReference(b)} :
            dgst' = r.dgst /\ ref' = r.ref /\ err' = r.err
  /\ op' = "ParseIDOrReference"
  /\ UNCHANGED <<argRef, out>>

\* The calls that take a reference are made on a reference a call returned.
HasRef == op # "start" /\ ref # NilRef

CallWithRemoteTag ==
  /\ HasRef
  /\ \E t \in Tags :
       /\ arg' = t
       /\ \E r \in {WithRemoteTag(ref, t)} : ref' = r.ref /\ err' = r.err
  /\ argRef' = ref
  /\ op' = "WithRemoteTag"
  /\ base' = <<>>
  /\ dgst' = <<>>
  /\ out' = <<>>

CallWithRemoteDigest ==
  /\ HasRef
  /\ \E d \in Digests :
       /\ arg' = d
       /\ \E r \in {WithRemoteDigest(ref, d)} : ref' = r.ref /\ err' = r.err
  /\ argRef' = ref
  /\ op' = "WithRemoteDigest"
  /\ base' = <<>>
  /\ dgst' = <<>>
  /\ out' = <<>>

CallWithDefaultRemoteTag ==
  /\ HasRef
  /\ ref' = WithDefaultRemoteTag(ref)
  /\ argRef' = ref
  /\ op' = "WithDefaultRemoteTag"
  /\ err' = FALSE
  /\ arg' = <<>>
  /\ base' = <<>>
  /\ dgst' = <<>>
  /\ out' = <<>>

Next ==
  \/ CallNormalize
  \/ CallWithRemoteName
  \/ CallParseRemoteNamed
  \/ CallParseIDOrReference
  \/ CallWithRemoteTag
  \/ CallWithRemoteDigest
  \/ CallWithDefaultRemoteTag

Spec == Init /\ [][Next]_vars

(***************************************************************************)
(* Properties                                                              *)
(***************************************************************************)
HasSuffix(s, x) == Len(s) >= Len(x) /\ SubSeq(s, Len(s) - Len(x) + 1, Len(s)) = x

HasUpper(s) == ContainsAny(s, Upper)

\* The name a call is given: the whole argument of WithRemoteName, the part
\* of ParseRemoteNamed's argument before its tag and digest.
NameGiven == IF op = "ParseRemoteNamed" THEN SplitReference(arg).name ELSE arg

Constructed == op \in {"WithRemoteName", "ParseRemoteNamed"}

Accessors(r) == <<Name(r), FullName(r), Hostname(r), RemoteName(r)>>

\* A name on the default host in its three spellings.
ThreeSpellings(R) == {Minimal(R), FullyQualified(R), LegacyAlias(R)}

\* A remote name on the default host that the grammar accepts: components
\* joined by "/", the first no hostname, and no hexadecimal identifier.
IsDefaultHostRemoteName(R) ==
  /\ NoHostname(R, IndexRune(R, "/"))
  /\ MatchesName(R)
  /\ ~ValidateHex(Minimal(R))

\* C1: for a grammar-valid remote name R on the default host, the minimal,
\* the fully-qualified and the legacy-alias spelling are all accepted by
\* WithRemoteName and by ParseRemoteNamed, and the references have the same
\* Name(), FullName(), Hostname() and RemoteName().
C1_SpellingsEquivalent ==
  (Constructed /\ IsDefaultHostRemoteName(base) /\ arg \in ThreeSpellings(base))
    => /\ ~err
       /\ \A s \in ThreeSpellings(base) :
            \A r \in {WithRemoteName(s), ParseRemoteNamed(s)} :
              ~r.err /\ Accessors(r.ref) = Accessors(ref)

\* C2: for every input ParseRemoteNamed accepts, the FullName() of the
\* result is accepted too and parses to a reference with that FullName().
C2_FullNameRoundTrip ==
  (op = "ParseRemoteNamed" /\ ~err)
    => \A r \in {ParseRemoteNamed(FullName(ref))} :
         ~r.err /\ FullName(r.ref) = FullName(ref)

\* C3: normalize succeeds on its own output and returns it unchanged
\* (stated for the names the grammar accepts).
C3_NormalizeIdempotent ==
  (op = "normalize" /\ ~err /\ MatchesName(arg)) => normalize(out) = StrOk(out)

TagAndDigestSuffix == <<":">> \o DefaultTag \o <<"@">> \o SomeDigest

\* C4: ParseRemoteNamed of "name:tag@digest" returns a RemoteCanonical with
\* that digest, which is no RemoteTagged and holds no tag, and whose
\* String() is name@digest; no reference returned by any call holds both a
\* tag and a digest.
C4_DigestWinsOverTag ==
  /\ (op = "ParseRemoteNamed" /\ ~err /\ HasSuffix(arg, TagAndDigestSuffix))
       => /\ IsRemoteCanonical(ref)
          /\ ~IsRemoteTagged(ref)
          /\ Digest(ref) = SomeDigest
          /\ Tag(ref) = <<>>
          /\ String(ref) = Name(ref) \o <<"@">> \o SomeDigest
  /\ ~(IsNamedTagged(ref) /\ IsCanonical(ref))
  /\ ~(Tag(ref) # <<>> /\ Digest(ref) # <<>>)

C4_Witness ==
  /\ op = "ParseRemoteNamed"
  /\ arg = library \o Slash \o ubuntu \o TagAndDigestSuffix
  /\ ~err
  /\ ref = MkRef("remoteCanonicalRef", ubuntu, <<>>, SomeDigest)

\* C5: WithRemoteName and ParseRemoteNamed return an error and no reference
\* for a name with an uppercase character; no reference has an uppercase
\* character in its Name(); what normalize returns is its input or the end
\* of its input, character for character.
C5_UppercaseRejected ==
  /\ (Constructed /\ HasUpper(NameGiven)) => (err /\ ref = NilRef)
  /\ ~HasUpper(Name(ref))
  /\ (op = "normalize" /\ ~err) => HasSuffix(arg, out)

C5_Witness ==
  /\ op = "WithRemoteName"
  /\ arg = DefaultHostname \o Slash \o fooo \o Slash \o Docker
  /\ err
  /\ ref = NilRef

\* The spellings of a name on the default host that normalize to the name.
DefaultPrefixes ==
  {<<>>, DefaultRepoPrefix,
   DefaultHostname \o Slash, DefaultHostname \o Slash \o DefaultRepoPrefix,
   LegacyDefaultHostname \o Slash, LegacyDefaultHostname \o Slash \o DefaultRepoPrefix}

IsHexSpelling(s) ==
  /\ Len(s) >= HexLength
  /\ ValidateHex(SubSeq(s, Len(s) - HexLength + 1, Len(s)))
  /\ SubSeq(s, 1, Len(s) - HexLength) \in DefaultPrefixes

ExplicitHost(s, i) ==
  /\ i > 0
  /\ ContainsAny(SubSeq(s, 1, i - 1), {".", ":"}) \/ SubSeq(s, 1, i - 1) = localhost
  /\ SubSeq(s, 1, i - 1) \notin {DefaultHostname, LegacyDefaultHostname}

AccessorsAre(r, s, i) ==
  /\ Name(r) = s
  /\ FullName(r) = s
  /\ Hostname(r) = SubSeq(s, 1, i - 1)
  /\ RemoteName(r) = SubSeq(s, i + 1, Len(s))

\* C7: an accepted name h/p whose first segment h is an explicit hostname
\* other than "docker.io" and "index.docker.io" is the reference's Name()
\* and FullName(), with Hostname() h and RemoteName() p.
C7_OtherHostsUnchanged ==
  (Constructed /\ ~err /\ ExplicitHost(NameGiven, IndexRune(NameGiven, "/")))
    => AccessorsAre(ref, NameGiven, IndexRune(NameGiven, "/"))

C7_Witness ==
  /\ op = "ParseRemoteNamed"
  /\ arg = exampleCom \o Slash \o library \o Slash \o ubuntu
  /\ ~err
  /\ Name(ref) = arg
  /\ RemoteName(ref) = library \o Slash \o ubuntu

\* C8: ParseIDOrReference returns, without error, either a digest or a
\* reference and never both; valid hex is returned as the digest "sha256:"
\* + input and a digest as itself, with no reference; the reference is
\* parsed only when the digest does not parse; with an error there is no
\* digest and no reference.
C8_DigestOrReference ==
  op = "ParseIDOrReference"
    => /\ ~err => ((dgst # <<>>) # (ref # NilRef))
       /\ ValidateHex(arg) => (~err /\ dgst = sha256Prefix \o arg /\ ref = NilRef)
       /\ ~ParseDigest(arg).err => (~err /\ dgst = arg /\ ref = NilRef)
       /\ ref # NilRef => (ParseDigest(arg).err /\ ~ValidateHex(arg))
       /\ (ParseDigest(arg).err /\ ~ValidateHex(arg))
            => \A r \in {ParseRemoteNamed(arg)} :
                 dgst = <<>> /\ ref = r.ref /\ err = r.err
       /\ err => (dgst = <<>> /\ ref = NilRef)

C8_Witness ==
  /\ op = "ParseIDOrReference"
  /\ arg = HexName
  /\ ~err
  /\ dgst = sha256Prefix \o HexName
  /\ ref = NilRef

\* C9: WithDefaultRemoteTag of a reference with a name only is a
\* RemoteTagged with that name and the tag "latest"; of a reference with a
\* tag or a digest it is that reference; applied to its result it returns
\* the result, on which IsRemoteNameOnly is false.
C9_DefaultTagIdempotent ==
  op = "WithDefaultRemoteTag"
    => /\ (Tag(argRef) = <<>> /\ Digest(argRef) = <<>>)
            => ref = MkRef("remoteTaggedRef", Name(argRef), DefaultTag, <<>>)
       /\ (Tag(argRef) # <<>> \/ Digest(argRef) # <<>>) => ref = argRef
       /\ WithDefaultRemoteTag(ref) = ref
       /\ ~IsRemoteNameOnly(ref)

C9_Witness ==
  /\ op = "WithDefaultRemoteTag"
  /\ argRef = MkRef("remoteNamedRef", ubuntu, <<>>, <<>>)
  /\ ref = MkRef("remoteTaggedRef", ubuntu, DefaultTag, <<>>)

\* C10: for an input s that WithRemoteName accepts, with (h, r) =
\* splitHostname(s), the reference has Hostname() h, RemoteName() r and
\* FullName() h/r.
C10_AccessorsAgreeWithSplit ==
  (op = "WithRemoteName" /\ ~err)
    => \A sp \in {splitHostname(arg)} :
         /\ Hostname(ref) = sp.hostname
         /\ RemoteName(ref) = sp.remoteName
         /\ FullName(ref) = sp.hostname \o Slash \o sp.remoteName

====
